---- MODULE Spec2Model ----
(***************************************************************************)
(* Blackjack environment with a Halves running count                       *)
(* (src/blackjack_with_halves_counting.py, class BlackjackEnvWithHalves).  *)
(*                                                                         *)
(* Units: the Halves weights, the running count and the rewards are        *)
(* multiples of 0.5 in the source; here they are integers counting halves  *)
(* (current_count = 3 stands for 1.5, reward = -2 stands for -1.0).        *)
(* Python lists are 0-based, TLA+ sequences 1-based: dealer[0] of the      *)
(* source is dealer[1] here and the hole card dealer[1] is dealer[2].      *)
(***************************************************************************)
EXTENDS Integers, Sequences, FiniteSets, TLC

VARIABLES deck, current_count, player, dealer, hasHands, natural, sab,
          np_random, phase, ret, events, calls, evaluation

vars == <<deck, current_count, player, dealer, hasHands, natural, sab,
          np_random, phase, ret, events, calls, evaluation>>

(* ---------------- bounds of the model ---------------- *)

\* The random source "ends" may return the card at one of the first MaxPick
\* or one of the last MaxPick positions of the deck list (the sources "first"
\* and "last" return the card at one fixed end at every draw).
MaxPick == 1

\* The random source "wide" may return the card at one of the first
\* MaxRoundPick or one of the last MaxRoundPick positions of the deck list.
MaxRoundPick == 2

\* Number of rounds in a run of HitSpec.
MaxHitRounds == 1

\* Longest hand given to the hand functions in HandSpec.
MaxHandLen == 4

\* spaces.Discrete(89): the number of values declared for the running count
CountValues == 89

\* the largest count among CountValues values centred on 0, in halves
CountLimit == (CountValues - 1) \div 2

\* Number of calls (reset and step) in a run of Spec.
MaxCalls == 6

\* Number of calls (reset and step) in a run of ProtocolSpec.
MaxProtocolCalls == 3

(* ---------------- program constants ---------------- *)

NumDecks == 4
ReshuffleThreshold == 15
DealerLimit == 17
BustLimit == 21

\* deck = [1, 2, ..., 9, 10, 10, 10, 10]
OneDeck == <<1, 2, 3, 4, 5, 6, 7, 8, 9, 10, 10, 10, 10>>

\* mutant of card_scores: a 9 counts 0 instead of -0.5
card_scores_nine_neutral(card) ==
  CASE card = 2 -> 1
    [] card \in {3, 4, 6} -> 2
    [] card = 5 -> 3
    [] card = 7 -> 1
    [] card \in {8, 9} -> 0
    [] card \in {1, 10} -> -2

\* card_scores, in halves
card_scores(card) ==
  CASE card = 2 -> 1
    [] card = 3 -> 2
    [] card = 4 -> 2
    [] card = 5 -> 3
    [] card = 6 -> 2
    [] card = 7 -> 1
    [] card = 8 -> 0
    [] card = 9 -> -1
    [] card = 10 -> -2
    [] card = 1 -> -2

(* ---------------- pure helpers ---------------- *)

RECURSIVE SumSeq(_)
SumSeq(s) == IF s = <<>> THEN 0 ELSE s[1] + SumSeq(Tail(s))

Contains(s, x) == \E i \in 1..Len(s) : s[i] = x

CountOf(s, x) == Cardinality({i \in 1..Len(s) : s[i] = x})

\* deck.copy() * 4
RECURSIVE Repeat(_, _)
Repeat(s, n) == IF n = 0 THEN <<>> ELSE s \o Repeat(s, n - 1)

\* mutant of FullDeck: the shoe is a single deck
FullDeckSingle == OneDeck

FullDeck == Repeat(OneDeck, NumDecks)

\* mutant of RemoveFirst: every occurrence of the card is removed
RemoveEvery(s, x) == SelectSeq(s, LAMBDA y : y # x)

\* list.remove(card): removes the first occurrence
RemoveFirst(s, x) ==
  LET i == CHOOSE k \in 1..Len(s) : s[k] = x /\ \A j \in 1..(k - 1) : s[j] # x
  IN  SubSeq(s, 1, i - 1) \o SubSeq(s, i + 1, Len(s))

cmp(a, b) == (IF a > b THEN 1 ELSE 0) - (IF a < b THEN 1 ELSE 0)

usable_ace(hand) == Contains(hand, 1) /\ SumSeq(hand) + 10 <= BustLimit

\* mutant of sum_hand: every Ace of a hand with a usable Ace counts 11
sum_hand_every_ace(hand) ==
  IF usable_ace(hand)
  THEN SumSeq(hand) + 10 * Cardinality({i \in 1..Len(hand) : hand[i] = 1})
  ELSE SumSeq(hand)

sum_hand(hand) == IF usable_ace(hand) THEN SumSeq(hand) + 10 ELSE SumSeq(hand)

\* mutant of is_bust: a total of 21 is a bust
is_bust_at_limit(hand) == sum_hand(hand) >= BustLimit

is_bust(hand) == sum_hand(hand) > BustLimit

score(hand) == IF is_bust(hand) THEN 0 ELSE sum_hand(hand)

\* sorted(hand) == [1, 10]
is_natural(hand) ==
  /\ Len(hand) = 2
  /\ \/ (hand[1] = 1 /\ hand[2] = 10)
     \/ (hand[1] = 10 /\ hand[2] = 1)

\* np_random.choice(self.deck): the cards the random source may return
Picks(d) ==
  CASE np_random = "first" -> {d[i] : i \in {k \in 1..Len(d) : k = 1}}
    [] np_random = "last" -> {d[i] : i \in {k \in 1..Len(d) : k = Len(d)}}
    [] np_random = "extremes" ->
         LET left == {d[i] : i \in 1..Len(d)}
         IN  {r \in left : \/ \A q \in left : r <= q
                           \/ \A q \in left : r >= q}
    [] np_random = "wide" -> {d[i] : i \in {k \in 1..Len(d) :
                                 k <= MaxRoundPick
                                   \/ k > Len(d) - MaxRoundPick}}
    [] OTHER -> {d[i] : i \in {k \in 1..Len(d) :
                                 k <= MaxPick \/ k > Len(d) - MaxPick}}

\* mutant of get_obs: the second dealer card is shown
get_obs_hole(p, d, c) ==
  <<sum_hand(p), d[2], IF usable_ace(p) THEN 1 ELSE 0, c>>

\* _get_obs
get_obs(p, d, c) == <<sum_hand(p), d[1], IF usable_ace(p) THEN 1 ELSE 0, c>>

NoObs == <<>>

Ev(kind, card) == <<kind, card>>

\* the hand functions (lines 29-48) applied to one hand
Evaluate(hand) ==
  [hand |-> hand, applied |-> TRUE, usable_ace |-> usable_ace(hand), sum_hand |-> sum_hand(hand),
   is_bust |-> is_bust(hand), score |-> score(hand),
   is_natural |-> is_natural(hand)]

\* a hand the functions have not been applied to yet
Pending(hand) ==
  [hand |-> hand, applied |-> FALSE, usable_ace |-> FALSE, sum_hand |-> 0,
   is_bust |-> FALSE, score |-> 0, is_natural |-> FALSE]

(* ---------------- construction ---------------- *)

Construct ==
  /\ natural \in BOOLEAN
  /\ sab \in BOOLEAN
  /\ current_count = 0
  /\ deck = FullDeck
  /\ player = <<>>
  /\ dealer = <<>>
  /\ hasHands = FALSE
  /\ phase = "constructed"
  /\ ret = [op |-> "init", action |-> -1, raised |-> FALSE, reward |-> 0,
            done |-> FALSE, obs |-> NoObs, from |-> "none"]
  /\ events = <<>>
  /\ calls = 0

\* the random source returns the first card of the deck list at every draw,
\* or the last card at every draw
Init == Construct /\ evaluation = Pending(<<>>) /\ np_random \in {"first", "last"}

\* the random source returns a card from either end of the deck list
EndsInit == Construct /\ evaluation = Pending(<<>>) /\ np_random = "ends"

\* the random source returns a card near either end of the deck list
WideInit == Construct /\ evaluation = Pending(<<>>) /\ np_random = "wide"

(* ---------------- reset ---------------- *)

\* mutant of NeedsReshuffle: a deck of 15 cards is reshuffled too
NeedsReshuffleAtThreshold(d) == Len(d) <= ReshuffleThreshold

\* if len(self.deck) < 15
NeedsReshuffle(d) == Len(d) < ReshuffleThreshold

\* mutant of ResetCount: the hole card is counted at reset too
ResetCountBothDealerCards(c, dealerHand, playerHand) ==
  c + card_scores(dealerHand[1]) + card_scores(dealerHand[2])
    + card_scores(playerHand[1]) + card_scores(playerHand[2])

\* the count_cards calls of reset (lines 184, 188, 189) applied to count c
ResetCount(c, dealerHand, playerHand) ==
  c + card_scores(dealerHand[1]) + card_scores(playerHand[1])
    + card_scores(playerHand[2])

\* mutant of ShuffledCount: reshuffle_deck keeps the running count
ShuffledCountKept(count) == count

\* reshuffle_deck: self.current_count = 0
ShuffledCount(count) == 0

Reset ==
  LET shuffled == NeedsReshuffle(deck)
      d0 == IF shuffled THEN FullDeck ELSE deck
      c0 == IF shuffled THEN ShuffledCount(current_count) ELSE current_count
      e0 == IF shuffled THEN <<Ev("reshuffle", 0)>> ELSE <<>>
  IN  \E a \in Picks(d0) :
      \E b \in Picks(RemoveFirst(d0, a)) :
      \E c \in Picks(RemoveFirst(RemoveFirst(d0, a), b)) :
      \E d \in Picks(RemoveFirst(RemoveFirst(RemoveFirst(d0, a), b), c)) :
        /\ deck' = RemoveFirst(RemoveFirst(RemoveFirst(RemoveFirst(d0, a), b), c), d)
        /\ dealer' = <<a, b>>
        /\ player' = <<c, d>>
        /\ hasHands' = TRUE
        /\ current_count' = ResetCount(c0, <<a, b>>, <<c, d>>)
        /\ events' = e0 \o <<Ev("draw", a), Ev("draw", b), Ev("dealer", a),
                              Ev("dealer", b), Ev("count", a),
                              Ev("draw", c), Ev("draw", d), Ev("player", c),
                              Ev("player", d), Ev("count", c), Ev("count", d)>>
        /\ phase' = "awaiting"
        /\ ret' = [op |-> "reset", action |-> -1, raised |-> FALSE,
                   reward |-> 0, done |-> FALSE,
                   obs |-> get_obs(player', dealer', current_count'),
                   from |-> phase]
        /\ UNCHANGED <<evaluation, natural, sab, np_random>>

(* ---------------- step ---------------- *)

\* mutant of DealerDraws: the dealer hits on 17 too
DealerDrawsAtLimit(hand) == sum_hand(hand) <= DealerLimit

\* while sum_hand(self.dealer) < 17
DealerDraws(hand) == sum_hand(hand) < DealerLimit

\* The while loop of the dealer (lines 140-143 and 153-156): the set of
\* states the loop can end in.  raised = TRUE when draw_card found the deck
\* empty; the cards drawn before that stay drawn and counted.
RECURSIVE DealerPlay(_, _, _, _)
DealerPlay(d, hand, cnt, ev) ==
  IF DealerDraws(hand)
  THEN IF d = <<>>
       THEN {[deck |-> d, dealer |-> hand, count |-> cnt,
              events |-> Append(ev, Ev("empty", 0)), raised |-> TRUE]}
       ELSE UNION {DealerPlay(RemoveFirst(d, card), Append(hand, card),
                              cnt + card_scores(card),
                              ev \o <<Ev("draw", card), Ev("count", card),
                                      Ev("dealer", card)>>)
                   : card \in Picks(d)}
  ELSE {[deck |-> d, dealer |-> hand, count |-> cnt, events |-> ev,
         raised |-> FALSE]}

\* mutant of HoleCount: the hole card is never counted
HoleCountSkipped(dealerHand) == 0

\* self.count_cards(self.dealer[1]) of stand and double: the hole card
HoleCount(dealerHand) == card_scores(dealerHand[2])

\* mutant of StandReward: the natural bonus is tried before the sab rule
StandRewardBonusFirst(p, d) ==
  LET reward == 2 * cmp(score(p), score(d))
  IN  IF natural /\ is_natural(p) /\ reward = 2 THEN 3
      ELSE IF sab /\ is_natural(p) /\ ~is_natural(d) THEN 2
      ELSE reward

\* mutant of StandReward: the natural bonus is paid on a tie too
StandRewardBonusOnTie(p, d) ==
  LET reward == 2 * cmp(score(p), score(d))
  IN  IF sab /\ is_natural(p) /\ ~is_natural(d) THEN 2
      ELSE IF ~sab /\ natural /\ is_natural(p) THEN 3
      ELSE reward

\* reward of stand (lines 158-170), in halves
StandReward(p, d) ==
  LET reward == 2 * cmp(score(p), score(d))
  IN  IF sab /\ is_natural(p) /\ ~is_natural(d) THEN 2
      ELSE IF ~sab /\ natural /\ is_natural(p) /\ reward = 2 THEN 3
      ELSE reward

\* reward of double (line 145), in halves
DoubleReward(p, d) == 2 * (2 * cmp(score(p), score(d)))

\* the call raised an exception: nothing is returned
Raise(action) ==
  /\ phase' = "failed"
  /\ ret' = [op |-> "step", action |-> action, raised |-> TRUE, reward |-> 0,
             done |-> FALSE, obs |-> NoObs, from |-> phase]

\* return self._get_obs(), reward, done, {}
Return(action, reward, done) ==
  /\ phase' = IF done THEN "resolved" ELSE "awaiting"
  /\ ret' = [op |-> "step", action |-> action, raised |-> FALSE,
             reward |-> reward, done |-> done,
             obs |-> get_obs(player', dealer', current_count'), from |-> phase]

\* step(1)
Hit ==
  /\ UNCHANGED <<evaluation, natural, sab, np_random, hasHands, dealer>>
  /\ IF deck = <<>>
     THEN /\ UNCHANGED <<deck, current_count, player>>
          /\ events' = <<Ev("empty", 0)>>
          /\ Raise(1)
     ELSE \E card \in Picks(deck) :
            /\ deck' = RemoveFirst(deck, card)
            /\ current_count' = current_count + card_scores(card)
            /\ IF ~hasHands
               THEN /\ UNCHANGED player
                    /\ events' = <<Ev("draw", card), Ev("count", card)>>
                    /\ Raise(1)
               ELSE /\ player' = Append(player, card)
                    /\ events' = <<Ev("draw", card), Ev("count", card),
                                   Ev("player", card)>>
                    /\ IF is_bust(player')
                       THEN Return(1, -2, TRUE)
                       ELSE Return(1, 0, FALSE)

\* step(2)
Double ==
  /\ UNCHANGED <<evaluation, natural, sab, np_random, hasHands>>
  /\ IF deck = <<>>
     THEN /\ UNCHANGED <<deck, current_count, player, dealer>>
          /\ events' = <<Ev("empty", 0)>>
          /\ Raise(2)
     ELSE \E card \in Picks(deck) :
            IF ~hasHands
            THEN /\ deck' = RemoveFirst(deck, card)
                 /\ current_count' = current_count + card_scores(card)
                 /\ UNCHANGED <<player, dealer>>
                 /\ events' = <<Ev("draw", card), Ev("count", card)>>
                 /\ Raise(2)
            ELSE \E out \in DealerPlay(RemoveFirst(deck, card), dealer,
                                       current_count + card_scores(card)
                                         + HoleCount(dealer),
                                       <<Ev("draw", card), Ev("count", card),
                                         Ev("player", card),
                                         Ev("count", dealer[2])>>) :
                   /\ deck' = out.deck
                   /\ current_count' = out.count
                   /\ player' = Append(player, card)
                   /\ dealer' = out.dealer
                   /\ events' = out.events
                   /\ IF out.raised
                      THEN Raise(2)
                      ELSE Return(2, DoubleReward(player', dealer'), TRUE)

\* the stand branch (the else of lines 147-170), entered with this action
StandAs(action) ==
  /\ UNCHANGED <<evaluation, natural, sab, np_random, hasHands, player>>
  /\ IF ~hasHands
     THEN /\ UNCHANGED <<deck, current_count, dealer>>
          /\ events' = <<>>
          /\ Raise(action)
     ELSE \E out \in DealerPlay(deck, dealer,
                                current_count + HoleCount(dealer),
                                <<Ev("count", dealer[2])>>) :
            /\ deck' = out.deck
            /\ current_count' = out.count
            /\ dealer' = out.dealer
            /\ events' = out.events
            /\ IF out.raised
               THEN Raise(action)
               ELSE Return(action, StandReward(player, dealer'), TRUE)

\* step(0)
Stand == StandAs(0)

\* actions outside Discrete(3)
InvalidActions == {-1, 3}

\* mutant of StepInvalid: no assertion, the action falls into the else branch
StepInvalidFallsThrough == \E action \in InvalidActions : StandAs(action)

\* step(action) with action outside Discrete(3): the assertion fails
StepInvalid ==
  \E action \in InvalidActions :
      /\ UNCHANGED <<deck, current_count, player, dealer, hasHands, natural, sab,
                   np_random, evaluation>>
    /\ events' = <<>>
    /\ Raise(action)

(* ---------------- specifications ---------------- *)

Call == calls < MaxCalls /\ calls' = calls + 1

\* every call the class accepts, in any order, MaxCalls calls in a run, with
\* the random sources "first" and "last"
BoundedReset == Call /\ Reset
BoundedHit == Call /\ Hit
BoundedDouble == Call /\ Double
BoundedStand == Call /\ Stand
BoundedInvalid == Call /\ StepInvalid

Next == BoundedReset \/ BoundedHit \/ BoundedDouble \/ BoundedStand
          \/ BoundedInvalid

Spec == Init /\ [][Next]_vars

\* the protocol: reset(), then step() until done = True, then reset() again
ProtocolReset == phase # "awaiting" /\ Reset
ProtocolHit == phase = "awaiting" /\ Hit
ProtocolDouble == phase = "awaiting" /\ Double
ProtocolStand == phase = "awaiting" /\ Stand

\* protocol runs of MaxProtocolCalls calls with the random source "ends"
ProtocolCall == calls < MaxProtocolCalls /\ calls' = calls + 1

ShortReset == ProtocolCall /\ ProtocolReset
ShortHit == ProtocolCall /\ ProtocolHit
ShortDouble == ProtocolCall /\ ProtocolDouble
ShortStand == ProtocolCall /\ ProtocolStand

ShortNext == ShortReset \/ ShortHit \/ ShortDouble \/ ShortStand

ProtocolSpec == EndsInit /\ [][ShortNext]_vars

\* protocol runs of any length with the random sources "first" and "last"
LongReset == ProtocolReset /\ UNCHANGED calls
LongHit == ProtocolHit /\ UNCHANGED calls
LongDouble == ProtocolDouble /\ UNCHANGED calls
LongStand == ProtocolStand /\ UNCHANGED calls

LongNext == LongReset \/ LongHit \/ LongDouble \/ LongStand

LongSpec == Init /\ [][LongNext]_vars

\* protocol runs in which hits can follow each other up to the longest hand
\* that is not bust.  The random source "extremes"
\* returns a card of the lowest or of the highest rank left in the deck and
\* is followed for MaxHitRounds rounds; the sources "first" and "last" are
\* followed without a bound, down to the reshuffle and past it.
ExtremesInit ==
  /\ Construct
  /\ evaluation = Pending(<<>>)
  /\ np_random \in {"first", "last", "extremes"} /\ ~natural /\ ~sab

HitReset ==
  /\ ProtocolReset
  /\ IF np_random = "extremes"
     THEN calls < MaxHitRounds /\ calls' = calls + 1
     ELSE UNCHANGED calls

HitNext == HitReset \/ LongHit \/ LongDouble \/ LongStand

HitSpec == ExtremesInit /\ [][HitNext]_vars

\* the first round after construction, played to its end, with the random
\* source "wide"
RoundReset == phase = "constructed" /\ Reset /\ UNCHANGED calls

RoundNext == RoundReset \/ LongHit \/ LongDouble \/ LongStand

RoundSpec == WideInit /\ [][RoundNext]_vars

\* the hands the functions are given: the two cards of draw_hand plus the
\* cards appended by hits, up to MaxHandLen cards
Hands == UNION {[1..n -> 1..10] : n \in 2..MaxHandLen}

EvaluateHand ==
  /\ ~evaluation.applied
  /\ evaluation' = Evaluate(evaluation.hand)
  /\ UNCHANGED <<deck, current_count, player, dealer, hasHands, natural, sab,
                 np_random, phase, ret, events, calls>>

HandInit ==
  /\ Construct
  /\ np_random = "first" /\ ~natural /\ ~sab
  /\ \E hand \in Hands : evaluation = Pending(hand)

HandSpec == HandInit /\ [][EvaluateHand]_vars

\* count_cards(draw_card()): one card leaves the shoe and is counted
DrawAndCount ==
  /\ deck # <<>>
  /\ \E card \in Picks(deck) :
       /\ deck' = RemoveFirst(deck, card)
       /\ current_count' = current_count + card_scores(card)
  /\ UNCHANGED <<player, dealer, hasHands, natural, sab, np_random, phase,
                 ret, events, calls, evaluation>>

CountInit ==
  /\ Construct
  /\ evaluation = Pending(<<>>)
  /\ np_random = "wide" /\ ~natural /\ ~sab

CountSpec == CountInit /\ [][DrawAndCount]_vars

TypeOK ==
  /\ phase \in {"constructed", "awaiting", "resolved", "failed"}
  /\ Len(deck) <= Len(FullDeck)

(* ---------------- shared predicates ---------------- *)

\* an event of this kind is among the events of the last call
Happened(kind) == \E i \in 1..Len(events) : events[i][1] = kind

IsStep(a) == ret.op = "step" /\ ret.action = a

(* ---------------- C1 ---------------- *)

\* C1: in a run that follows the protocol, draw_card is never invoked on an
\* empty deck.
C1_NoDrawFromEmptyShoe == ~Happened("empty")

(* ---------------- C2 ---------------- *)

\* C2: every step call is all-or-nothing: a step that fails leaves the deck,
\* both hands and the running count as they were before the call.
C2_StepAllOrNothing ==
  [][(ret'.op = "step" /\ ret'.raised)
       => (deck' = deck /\ player' = player /\ dealer' = dealer
           /\ current_count' = current_count)]_vars

(* ---------------- C3 ---------------- *)

\* C3: after a terminal step the round is resolved and a further step without
\* a reset is not accepted: it draws no card, appends to no hand and leaves
\* the running count alone.
C3_NoStepAfterDone ==
  [][(phase = "resolved" /\ ret'.op = "step")
       => (ret'.raised /\ deck' = deck /\ player' = player
           /\ dealer' = dealer /\ current_count' = current_count)]_vars

(* ---------------- C4 ---------------- *)

\* C4: whenever a terminal step leaves the player's hand bust, the returned
\* reward is strictly negative, for a hit and for a double alike.
C4_BustPlayerLoses ==
  (ret.op = "step" /\ ~ret.raised /\ ret.done /\ sum_hand(player) > BustLimit)
    => ret.reward < 0

(* ---------------- C5 ---------------- *)

\* the Halves weight of a list of cards
RECURSIVE HalvesSum(_)
HalvesSum(s) == IF s = <<>> THEN 0 ELSE card_scores(s[1]) + HalvesSum(Tail(s))

\* the weight of the cards removed from the deck since the last reshuffle
RemovedWeight == HalvesSum(FullDeck) - HalvesSum(deck)

\* C5: when a round is resolved (by stand, double or a busting hit) every
\* card drawn has been counted once: the running count equals the Halves
\* weight of the cards removed from the deck since the last reshuffle.
C5_CountMatchesRemovedCards ==
  phase = "resolved" => current_count = RemovedWeight

(* ---------------- C6 ---------------- *)

\* the cards appended to a hand by the last call
NewCards(before, after) == SubSeq(after, Len(before) + 1, Len(after))

\* the events before the first dealer draw of a call
RECURSIVE BeforeDealerDraw(_)
BeforeDealerDraw(es) ==
  IF es = <<>> \/ es[1][1] = "dealer" \/ es[1][1] = "empty"
  THEN <<>>
  ELSE IF es[1][1] = "draw" /\ Len(es) >= 3 /\ es[3][1] = "dealer"
       THEN <<>>
       ELSE <<es[1]>> \o BeforeDealerDraw(Tail(es))

CountEvents(es) == SelectSeq(es, LAMBDA e : e[1] = "count")

\* the count a reset starts from
ResetBase == IF Len(deck) < ReshuffleThreshold THEN 0 ELSE current_count

\* C6: the hole card dealer[1] is drawn at reset but counted later: reset adds
\* the weights of dealer[0], player[0] and player[1] only, a hit adds the
\* weight of the card it draws only, and a stand or double adds the weight of
\* the hole card once, before any dealer hit card is drawn.
C6_HoleCardDeferred ==
  [][/\ ret'.op = "reset"
          => current_count' = ResetBase + card_scores(dealer'[1])
                                + card_scores(player'[1])
                                + card_scores(player'[2])
     /\ (phase = "awaiting" /\ ret'.op = "step" /\ ret'.action = 1)
          => current_count' = current_count + HalvesSum(NewCards(player, player'))
     /\ (phase = "awaiting" /\ ret'.op = "step" /\ ret'.action \in {0, 2})
          => /\ current_count' = current_count
                                   + HalvesSum(NewCards(player, player'))
                                   + card_scores(dealer[2])
                                   + HalvesSum(NewCards(dealer, dealer'))
             /\ CountEvents(BeforeDealerDraw(events'))
                  = [i \in 1..Len(NewCards(player, player'))
                       |-> Ev("count", NewCards(player, player')[i])]
                    \o <<Ev("count", dealer[2])>>
             /\ Len(CountEvents(events'))
                  = Len(NewCards(player, player')) + 1
                    + Len(NewCards(dealer, dealer'))]_vars

\* a stand has revealed a hole card of non-zero weight and the dealer drew
C6_Witness ==
  /\ IsStep(0) /\ ~ret.raised /\ ret.from = "awaiting"
  /\ Len(dealer) > 2
  /\ card_scores(dealer[2]) # 0

(* ---------------- C7 ---------------- *)

\* C7 as stated: the running count returned by reset already includes the
\* weight of the dealer's hole card.
C7_ResetCountsHoleCard ==
  [][ret'.op = "reset"
       => ret'.obs[4] = ResetBase + card_scores(dealer'[1])
                          + card_scores(dealer'[2])
                          + card_scores(player'[1])
                          + card_scores(player'[2])]_vars

\* C7 amended: the running count returned by reset includes the weights of
\* the dealer's up-card and of the player's two cards, and not the weight of
\* the hole card.
C7_ResetObservationOmitsHoleCard ==
  [][ret'.op = "reset"
       => /\ ret'.obs[4] = ResetBase + card_scores(dealer'[1])
                             + card_scores(player'[1])
                             + card_scores(player'[2])
          /\ ret'.obs[4] = current_count']_vars

\* a reset has dealt a hole card of non-zero weight
C7_Witness ==
  /\ ret.op = "reset"
  /\ card_scores(dealer[2]) # 0
  /\ ret.obs[4] = current_count

(* ---------------- C8 ---------------- *)

Ranks == 1..10

\* C8: a reshuffle (deck back to the full composition, count to 0) happens
\* exactly when reset is called with fewer than 15 cards, never inside step;
\* a reset with 15 or more cards keeps the deck and carries the count over.
C8_ReshuffleOnlyAtLowReset ==
  [][/\ (ret'.op = "reset" /\ Len(deck) < ReshuffleThreshold)
          => /\ \A r \in Ranks :
                  CountOf(deck', r) + CountOf(dealer' \o player', r)
                    = CountOf(FullDeck, r)
             /\ current_count' = card_scores(dealer'[1])
                                   + card_scores(player'[1])
                                   + card_scores(player'[2])
     /\ (ret'.op = "reset" /\ Len(deck) >= ReshuffleThreshold)
          => /\ \A r \in Ranks :
                  CountOf(deck', r) + CountOf(dealer' \o player', r)
                    = CountOf(deck, r)
             /\ current_count' = current_count + card_scores(dealer'[1])
                                   + card_scores(player'[1])
                                   + card_scores(player'[2])
     /\ ret'.op = "step"
          => /\ \A r \in Ranks :
                  CountOf(deck', r) + CountOf(NewCards(player, player'), r)
                    + CountOf(NewCards(dealer, dealer'), r) = CountOf(deck, r)
             /\ current_count'
                  = current_count + HalvesSum(NewCards(player, player'))
                      + HalvesSum(NewCards(dealer, dealer'))
                      + (IF ret'.action \in {0, 2}
                         THEN card_scores(dealer[2]) ELSE 0)]_vars

\* a reset has reshuffled the deck
C8_Witness ==
  /\ ret.op = "reset"
  /\ Happened("reshuffle")
  /\ Len(deck) = Len(FullDeck) - 4

(* ---------------- C9 ---------------- *)

\* C9: a hit draws one card, counts it and appends it to the player's hand,
\* leaving the dealer's hand alone; it returns reward -1.0 and done = True
\* when the player's new total exceeds 21 and reward 0.0 and done = False
\* otherwise, also when the new total is 21.
C9_Hit ==
  [][(phase = "awaiting" /\ ret'.op = "step" /\ ret'.action = 1)
       => /\ ~ret'.raised
          /\ Len(player') = Len(player) + 1
          /\ SubSeq(player', 1, Len(player)) = player
          /\ deck' = RemoveFirst(deck, player'[Len(player')])
          /\ current_count'
               = current_count + card_scores(player'[Len(player')])
          /\ dealer' = dealer
          /\ IF sum_hand(player') > 21
             THEN ret'.reward = -2 /\ ret'.done /\ phase' = "resolved"
             ELSE ret'.reward = 0 /\ ~ret'.done /\ phase' = "awaiting"]_vars

\* a hit has brought the player to 21 and the round goes on
C9_Witness ==
  /\ IsStep(1) /\ ret.from = "awaiting"
  /\ sum_hand(player) = 21
  /\ ~ret.done /\ ret.reward = 0

(* ---------------- C10 ---------------- *)

\* C10: a double from any state awaiting an action draws one card for the
\* player, resolves the dealer, is terminal and returns twice the comparison
\* of the scores, a reward in {-2, 0, +2}.
C10_DoubleAlwaysResolves ==
  [][(phase = "awaiting" /\ ret'.op = "step" /\ ret'.action = 2)
       => /\ ~ret'.raised
          /\ ret'.done
          /\ Len(player') = Len(player) + 1
          /\ sum_hand(dealer') >= DealerLimit
          /\ ret'.reward = 2 * (2 * cmp(score(player'), score(dealer')))
          /\ ret'.reward \in {-4, 0, 4}]_vars

(* ---------------- C11 ---------------- *)

\* two cards, an Ace and a 10
TwoCardTwentyOne(hand) ==
  Len(hand) = 2 /\ {hand[1], hand[2]} = {1, 10}

\* C11: with sab enabled a stand returns +1.0 whenever the player holds a
\* natural and the dealer's final hand is not a natural, also when the dealer
\* has 21 with three or more cards; and with sab enabled no reward is 1.5.
C11_SabNaturalWins ==
  sab => /\ ret.reward # 3
         /\ (IsStep(0) /\ ~ret.raised /\ TwoCardTwentyOne(player)
               /\ ~TwoCardTwentyOne(dealer))
              => ret.reward = 2

\* with sab a natural has beaten a dealer's 21 of three or more cards
C11_Witness ==
  /\ sab /\ IsStep(0) /\ ~ret.raised /\ ret.from = "awaiting"
  /\ TwoCardTwentyOne(player)
  /\ Len(dealer) >= 3 /\ sum_hand(dealer) = 21
  /\ ret.reward = 2

(* ---------------- C12 ---------------- *)

\* the score of a hand: 0 above 21
PlainScore(hand) == IF sum_hand(hand) > 21 THEN 0 ELSE sum_hand(hand)

\* C12: with natural enabled and sab disabled a stand returns 1.5 exactly
\* when the player holds a natural and the dealer's final score is not 21,
\* and the plain comparison of the scores otherwise; without natural no
\* reward is 1.5.
C12_NaturalBonus ==
  /\ ~natural => ret.reward # 3
  /\ (natural /\ ~sab /\ IsStep(0) /\ ~ret.raised)
       => /\ ret.reward = 3
               <=> (TwoCardTwentyOne(player) /\ PlainScore(dealer) # 21)
          /\ ret.reward # 3
               => ret.reward = 2 * cmp(PlainScore(player), PlainScore(dealer))

\* a natural has been paid 1.5 against a dealer who drew
C12_Witness ==
  /\ natural /\ ~sab /\ IsStep(0) /\ ~ret.raised /\ ret.from = "awaiting"
  /\ TwoCardTwentyOne(player)
  /\ Len(dealer) >= 3
  /\ ret.reward = 3

(* ---------------- C13 ---------------- *)

\* C13: on stand and on double the dealer draws exactly while the dealer's
\* total is below 17: no draw when the two dealt cards total 17 or more,
\* every draw at a total below 17, and a total of 17 to 26 when the step
\* completes.
C13_DealerDrawsBelow17 ==
  [][(phase = "awaiting" /\ ret'.op = "step" /\ ret'.action \in {0, 2})
       => /\ SubSeq(dealer', 1, Len(dealer)) = dealer
          /\ sum_hand(dealer) >= 17 => dealer' = dealer
          /\ \A k \in Len(dealer)..(Len(dealer') - 1) :
               sum_hand(SubSeq(dealer', 1, k)) < 17
          /\ ~ret'.raised
               => (sum_hand(dealer') >= 17 /\ sum_hand(dealer') <= 26)]_vars

\* the dealer has drawn and stopped on a soft 17
C13_Witness ==
  /\ ret.op = "step" /\ ret.action \in {0, 2} /\ ~ret.raised
  /\ ret.from = "awaiting"
  /\ Len(dealer) >= 3
  /\ Contains(dealer, 1) /\ SumSeq(dealer) = 7

(* ---------------- C14 ---------------- *)

\* C14: a step with an action outside {0, 1, 2} is rejected before any
\* mutation: deck, hands and running count are unchanged and no observation
\* or reward is produced.
C14_InvalidActionRejected ==
  [][(ret'.op = "step" /\ ret'.action \notin {0, 1, 2})
       => /\ ret'.raised
          /\ ret'.obs = <<>>
          /\ deck' = deck /\ player' = player /\ dealer' = dealer
          /\ current_count' = current_count]_vars

\* an invalid action has been rejected in the middle of a round
C14_Witness ==
  /\ ret.op = "step" /\ ret.action \notin {0, 1, 2}
  /\ ret.raised /\ ret.from = "awaiting"
  /\ Len(player) >= 3

(* ---------------- C15 ---------------- *)

\* four decks: four cards of each rank 1..9 and sixteen of rank 10
FullCount(r) == IF r = 10 THEN 16 ELSE 4

HasEvent(es, kind) == \E i \in 1..Len(es) : es[i][1] = kind

\* the draws of a card of rank r among the events of a call
DrawsOf(es, r) ==
  Cardinality({i \in 1..Len(es) : es[i][1] = "draw" /\ es[i][2] = r})

\* the cards counted by a call, in order
CountedCards(es) ==
  [i \in 1..Len(CountEvents(es)) |-> CountEvents(es)[i][2]]

C18_FullShoeCountsToZero == deck = <<>> => current_count = 0

\* all 52 cards have been drawn and counted
C18_Witness == deck = <<>> /\ current_count = 0 /\ phase = "constructed"

(* ---------------- C19 ---------------- *)

\* the Halves weight of the cards of the ranks R removed from the deck since
\* the last reshuffle
RECURSIVE RemovedWeightOf(_)
RemovedWeightOf(R) ==
  IF R = {} THEN 0
  ELSE LET r == CHOOSE x \in R : TRUE
       IN  (FullCount(r) - CountOf(deck, r)) * card_scores(r)
             + RemovedWeightOf(R \ {r})

\* C19: in every run that follows the protocol the running count is a
\* multiple of 0.5 (an integer number of halves) between -22 and +22: it is
\* the weight of a sub-multiset of the cards removed from the 52-card shoe
\* since the last reshuffle, so it lies between the weight of the removed
\* cards of negative weight and that of the removed cards of positive weight.
C19_CountInRange ==
  /\ current_count \in -CountLimit..CountLimit
  /\ current_count >= RemovedWeightOf({r \in Ranks : card_scores(r) < 0})
  /\ current_count <= RemovedWeightOf({r \in Ranks : card_scores(r) > 0})

\* the count far below 0, on the lower bound the removed cards allow
C19_Witness ==
  /\ current_count <= -30
  /\ current_count = RemovedWeightOf({r \in Ranks : card_scores(r) < 0})

(* ---------------- C20 ---------------- *)

\* the hits of the current round
Hits == Len(player) - 2

\* C20: in a round started by reset a player who keeps hitting is bust after
\* at most 10 hits and no hit draws from an empty deck: the deck holds at
\* least 11 cards after the deal and a hand that is not bust has at most 11
\* cards.
C20_HittingEndsBeforeShoe ==
  /\ [](ret.op = "reset" => Len(deck) >= 11)
  /\ [](phase = "awaiting" => (~is_bust(player) /\ Len(player) <= 11
                                /\ Hits <= 9 /\ Len(deck) >= 11 - Hits))
  /\ [](hasHands => Hits <= 10)
  /\ [][(phase = "awaiting" /\ ret'.op = "step" /\ ret'.action = 1)
          => /\ ~ret'.raised
             /\ ~HasEvent(events', "empty")
             /\ Len(player') = Len(player) + 1
             /\ (Hits = 9 => (ret'.done /\ is_bust(player')))]_vars

\* the tenth hit of a round: the twelfth card busts the hand
C20_Witness ==
  /\ IsStep(1) /\ ~ret.raised /\ ret.done
  /\ Hits = 10
  /\ phase = "resolved"

====
